---- MODULE Spec2Model ----
(***************************************************************************)
(* Model of random-regex-strgen: the regex AST (regex/ast.rs), the         *)
(* recursive-descent parser (regex/parser.rs), the canonical Display       *)
(* rendering (regex/ast.rs) and the random string generator (rand_gen.rs). *)
(*                                                                         *)
(* A character is a one-character string, a text is a sequence of          *)
(* characters.  A character stream (Peekable<Chars>) is the text plus the  *)
(* index i of the next character; peek is s[i], next is i + 1.             *)
(***************************************************************************)
EXTENDS Integers, Sequences, FiniteSets

(***************************************************************************)
(* Bounds of the model.                                                    *)
(***************************************************************************)
\* longest pattern enumerated exhaustively over Sigma
MaxLen == 3
\* longest pattern enumerated exhaustively over GenSigma
MaxGenLen == 2
\* largest caller-supplied quantity_upper
MaxUpper == 2
\* parse calls made on the one Parser instance
MaxCalls == 2
\* longest string compared when two match languages are compared
MaxWord == 3

(***************************************************************************)
(* Characters.                                                             *)
(***************************************************************************)
\* end of stream: what peek()/next() yield as None
Eos == "<eos>"

DigitChars == <<"0", "1", "2", "3", "4", "5", "6", "7", "8", "9">>

IsDigit(c) == \E k \in 1..10 : DigitChars[k] = c

DigitVal(c) == (CHOOSE k \in 1..10 : DigitChars[k] = c) - 1

\* usize::MAX = 18446744073709551615, as its decimal digits
USIZE_MAX_DIGITS == <<"1", "8", "4", "4", "6", "7", "4", "4", "0", "7", "3", "7",
                      "0", "9", "5", "5", "1", "6", "1", "5">>

RANDOM_CHARS == <<"a", "b", "c", "d", "e", "f", "g", "h", "i", "j", "k", "l", "m",
                  "n", "o", "p", "q", "r", "s", "t", "u", "v", "w", "x", "y", "z",
                  "0", "1", "2", "3", "4", "5", "6", "7", "8", "9">>

(***************************************************************************)
(* Option<usize>.                                                          *)
(***************************************************************************)
None == [some |-> FALSE, v |-> 0]

Some(n) == [some |-> TRUE, v |-> n]

unwrap_or(o, d) == IF o.some THEN o.v ELSE d

(***************************************************************************)
(* regex/ast.rs: Char and Regex.                                           *)
(***************************************************************************)
Just(c) == [k |-> "Just", ch |-> c]

Alphabet == [k |-> "Alphabet", ch |-> ""]

Number == [k |-> "Number", ch |-> ""]

Any == [k |-> "Any", ch |-> ""]

RegexTail == [t |-> "Tail"]

Literal(c) == [t |-> "Literal", c |-> c]

Sequence(h, r) == [t |-> "Sequence", head |-> h, rest |-> r]

AnyOf(h, r) == [t |-> "AnyOf", head |-> h, rest |-> r]

Repeat(e, lo, hi) == [t |-> "Repeat", expr |-> e, min |-> lo, max |-> hi]

RECURSIVE FoldSequence(_, _)
\* the loop of sequence_from_iter over the reversed items
FoldSequence(items, rest) ==
    IF items = <<>> THEN rest
    ELSE FoldSequence(SubSeq(items, 1, Len(items) - 1),
                      Sequence(items[Len(items)], rest))

RECURSIVE FoldAnyOf(_, _)
\* the loop of anyof_from_iter over the reversed items
FoldAnyOf(items, rest) ==
    IF items = <<>> THEN rest
    ELSE FoldAnyOf(SubSeq(items, 1, Len(items) - 1),
                   AnyOf(items[Len(items)], rest))

sequence_from_iter(items) ==
    CASE Len(items) = 0 -> RegexTail
      [] Len(items) = 1 -> items[1]
      [] OTHER -> FoldSequence(items, RegexTail)

anyof_from_iter(items) ==
    CASE Len(items) = 0 -> RegexTail
      [] Len(items) = 1 -> items[1]
      [] OTHER -> FoldAnyOf(items, RegexTail)

\* arena.alloc calls made by sequence_from_iter / anyof_from_iter
from_iter_allocs(items) ==
    CASE Len(items) = 0 -> 1
      [] Len(items) = 1 -> 0
      [] OTHER -> 1 + Len(items)

RECURSIVE Iter(_)
\* the elements Regex::iter yields, in order
Iter(node) ==
    IF node.t = "Tail" THEN <<>>
    ELSE <<node.head>> \o Iter(node.rest)

RECURSIVE has_only_literals_deep(_)
\* has_only_literals examining the head recursively instead of requiring a Literal
has_only_literals_deep(node) ==
    CASE node.t = "Tail" -> TRUE
      [] node.t = "Literal" -> TRUE
      [] node.t \in {"Sequence", "AnyOf"} ->
            has_only_literals_deep(node.head) /\ has_only_literals_deep(node.rest)
      [] node.t = "Repeat" -> FALSE

RECURSIVE has_only_literals(_)
has_only_literals(node) ==
    CASE node.t = "Tail" -> TRUE
      [] node.t = "Literal" -> TRUE
      [] node.t = "Sequence" ->
            IF node.head.t = "Literal" THEN has_only_literals(node.rest) ELSE FALSE
      [] node.t = "AnyOf" ->
            IF node.head.t = "Literal" THEN has_only_literals(node.rest) ELSE FALSE
      [] node.t = "Repeat" -> FALSE

(***************************************************************************)
(* regex/parser.rs.  Every parsing function returns a record               *)
(*   err      "" for Ok, else the ParseError variant                        *)
(*   expected, actual   the fields of UnexpectedChar                        *)
(*   some, node         the Option<&Regex> / &Regex of an Ok                *)
(*   num                the Option<usize> of parse_number                   *)
(*   i        the stream position after the call                            *)
(*   n        arena.len() after the call                                    *)
(***************************************************************************)
NoNode == [t |-> "NoNode"]

Ok(some, node, i, n) ==
    [err |-> "", expected |-> "", actual |-> "", some |-> some, node |-> node,
     num |-> None, i |-> i, n |-> n]

OkNum(num, i, n) ==
    [err |-> "", expected |-> "", actual |-> "", some |-> FALSE, node |-> NoNode,
     num |-> num, i |-> i, n |-> n]

Err(e, i, n) ==
    [err |-> e, expected |-> "", actual |-> "", some |-> FALSE, node |-> NoNode,
     num |-> None, i |-> i, n |-> n]

UnexpectedChar(ex, ac, i, n) ==
    [err |-> "UnexpectedChar", expected |-> ex, actual |-> ac, some |-> FALSE,
     node |-> NoNode, num |-> None, i |-> i, n |-> n]

peek(s, i) == IF i <= Len(s) THEN s[i] ELSE Eos

ControlChars == {"+", "?", "*", "(", ")", "[", "]", "{", "}", "|"}

parse_char(s, i, n) ==
    LET c == peek(s, i) IN
    CASE c = Eos -> Ok(FALSE, NoNode, i, n)
      [] c \in ControlChars -> Ok(FALSE, NoNode, i, n)
      [] c = "." -> Ok(TRUE, Literal(Any), i + 1, n + 1)
      [] c = "\\" ->
            LET e == peek(s, i + 1) IN
            (CASE e = Eos -> Err("UnexpectedEos", i + 1, n)
               [] e = "d" -> Ok(TRUE, Literal(Number), i + 2, n + 1)
               [] e = "w" -> Ok(TRUE, Literal(Alphabet), i + 2, n + 1)
               [] OTHER -> Ok(TRUE, Literal(Just(e)), i + 2, n + 1))
      [] OTHER -> Ok(TRUE, Literal(Just(c)), i + 1, n + 1)

\* expect_char taking the end of the stream for the expected character
expect_char_eos_ok(s, i, n, c) ==
    IF peek(s, i) = Eos THEN Ok(FALSE, NoNode, i, n)
    ELSE IF peek(s, i) = c THEN Ok(FALSE, NoNode, i + 1, n)
    ELSE UnexpectedChar(c, peek(s, i), i, n)

expect_char(s, i, n, c) ==
    IF peek(s, i) = Eos THEN Err("UnexpectedEos", i, n)
    ELSE IF peek(s, i) = c THEN Ok(FALSE, NoNode, i + 1, n)
    ELSE UnexpectedChar(c, peek(s, i), i, n)

RECURSIVE StripZeros(_)
StripZeros(ds) ==
    IF ds # <<>> /\ ds[1] = "0" THEN StripZeros(Tail(ds)) ELSE ds

RECURSIVE DigitsGreater(_, _)
\* a > b for two digit strings of the same length
DigitsGreater(a, b) ==
    IF a = <<>> THEN FALSE
    ELSE IF DigitVal(a[1]) # DigitVal(b[1]) THEN DigitVal(a[1]) > DigitVal(b[1])
    ELSE DigitsGreater(Tail(a), Tail(b))

\* str::parse::<usize> fails (PosOverflow) exactly when the value exceeds usize::MAX
ParseOverflows(ds) ==
    LET z == StripZeros(ds) IN
    \/ Len(z) > Len(USIZE_MAX_DIGITS)
    \/ Len(z) = Len(USIZE_MAX_DIGITS) /\ DigitsGreater(z, USIZE_MAX_DIGITS)

RECURSIVE ParseUsize(_, _)
\* the value of a digit string, accumulated left to right
ParseUsize(ds, acc) ==
    IF ds = <<>> THEN acc
    ELSE ParseUsize(Tail(ds), acc * 10 + DigitVal(ds[1]))

RECURSIVE ScanNumber(_, _)
\* the loop of parse_number: the position at which it stops reading digits
ScanNumber(s, i) ==
    IF IsDigit(peek(s, i)) THEN ScanNumber(s, i + 1) ELSE i

\* parse_number once its loop has read the digits s[i..j-1]
number_end(s, i, j, n) ==
    CASE peek(s, j) = Eos -> Err("UnexpectedEos", j, n)
      [] peek(s, j) \in {",", "}"} ->
            IF i = j THEN OkNum(None, j, n)
            ELSE IF ParseOverflows(SubSeq(s, i, j - 1)) THEN Err("ShouldEscape", j, n)
            ELSE OkNum(Some(ParseUsize(SubSeq(s, i, j - 1), 0)), j, n)
      [] OTHER -> UnexpectedChar("0", peek(s, j), j, n)

parse_number(s, i, n) == number_end(s, i, ScanNumber(s, i), n)

RECURSIVE parse_expr_list(_, _, _)
RECURSIVE expr_list_loop(_, _, _, _)
RECURSIVE expr_list_item(_, _, _)
RECURSIVE parse_expr_seq(_, _, _)
RECURSIVE expr_seq_loop(_, _, _, _)
RECURSIVE expr_seq_item(_, _, _)
RECURSIVE expr_seq_push(_, _, _)
RECURSIVE parse_term(_, _, _)
RECURSIVE group_body(_, _)
RECURSIVE class_loop(_, _, _, _)
RECURSIVE class_item(_, _, _)

\* the '[' arm of parse_term once expect_char(']') has returned e
class_close(charlist, e) ==
    IF e.err # "" THEN e
    ELSE Ok(TRUE, anyof_from_iter(charlist), e.i, e.n + from_iter_allocs(charlist))

\* the loop of the '[' arm of parse_term once parse_char has returned r
class_item(s, charlist, r) ==
    IF r.err # "" THEN r
    ELSE IF r.some THEN class_loop(s, r.i, r.n, Append(charlist, r.node))
    ELSE class_close(charlist, expect_char(s, r.i, r.n, "]"))

\* the loop of the '[' arm of parse_term
class_loop(s, i, n, charlist) == class_item(s, charlist, parse_char(s, i, n))

\* the '(' arm of parse_term once expect_char(')') has returned e
group_close(l, e) ==
    IF e.err # "" THEN e ELSE Ok(TRUE, l.node, e.i, e.n)

\* the '(' arm of parse_term once parse_expr_list has returned l
group_body(s, l) ==
    IF l.err # "" THEN l ELSE group_close(l, expect_char(s, l.i, l.n, ")"))

parse_term(s, i, n) ==
    CASE peek(s, i) = "(" -> group_body(s, parse_expr_list(s, i + 1, n))
      [] peek(s, i) = "[" -> class_loop(s, i + 1, n, <<>>)
      [] OTHER -> parse_char(s, i, n)

\* the ',' arm of the quantifier once expect_char('}') has returned e
quantifier_close(item, lower, upper, e) ==
    IF e.err # "" THEN e ELSE Ok(TRUE, Repeat(item, lower, upper), e.i, e.n + 1)

\* the ',' arm of the quantifier once parse_number has returned up
quantifier_upper(s, item, lower, up) ==
    IF up.err # "" THEN up
    ELSE quantifier_close(item, lower, up.num, expect_char(s, up.i, up.n, "}"))

\* quantifier_lower taking 1 for a missing lower bound
quantifier_lower_default_one(s, item, lo) ==
    IF lo.err # "" THEN lo
    ELSE CASE peek(s, lo.i) = Eos -> Err("UnexpectedEos", lo.i, lo.n)
           [] peek(s, lo.i) = "," ->
                quantifier_upper(s, item, unwrap_or(lo.num, 1),
                                 parse_number(s, lo.i + 1, lo.n))
           [] peek(s, lo.i) = "}" ->
                Ok(TRUE, Repeat(item, unwrap_or(lo.num, 1), Some(unwrap_or(lo.num, 1))),
                   lo.i + 1, lo.n + 1)
           [] OTHER -> Err("ShouldEscape", lo.i, lo.n)

\* the '{' arm of parse_expr_seq once parse_number has returned lo
quantifier_lower(s, item, lo) ==
    IF lo.err # "" THEN lo
    ELSE CASE peek(s, lo.i) = Eos -> Err("UnexpectedEos", lo.i, lo.n)
           [] peek(s, lo.i) = "," ->
                quantifier_upper(s, item, unwrap_or(lo.num, 0),
                                 parse_number(s, lo.i + 1, lo.n))
           [] peek(s, lo.i) = "}" ->
                Ok(TRUE, Repeat(item, unwrap_or(lo.num, 0), Some(unwrap_or(lo.num, 0))),
                   lo.i + 1, lo.n + 1)
           [] OTHER -> Err("ShouldEscape", lo.i, lo.n)

\* the '{' arm of parse_expr_seq, entered after the '{' is consumed; the
\* result is the Repeat pushed onto terms
quantifier(s, i, n, item) == quantifier_lower(s, item, parse_number(s, i, n))

\* "Ok(Regex::sequence_from_iter(&self.arena, terms))"
sequence_result(terms, i, n) ==
    Ok(TRUE, sequence_from_iter(terms), i, n + from_iter_allocs(terms))

\* "Ok(Regex::anyof_from_iter(&self.arena, seqs))"
anyof_result(seqs, i, n) ==
    Ok(TRUE, anyof_from_iter(seqs), i, n + from_iter_allocs(seqs))

\* the '{' arm of the loop of parse_expr_seq once the quantifier has returned q
expr_seq_push(s, terms, q) ==
    IF q.err # "" THEN q ELSE expr_seq_loop(s, q.i, q.n, Append(terms, q.node))

\* the loop of parse_expr_seq once parse_term has returned t.
\* item.ok_or(ShouldEscape) never fails there: the loop has already left when
\* item is None
expr_seq_item(s, terms, t) ==
    IF t.err # "" THEN t
    ELSE IF ~t.some THEN sequence_result(terms, t.i, t.n)
    ELSE CASE peek(s, t.i) = "+" ->
                expr_seq_loop(s, t.i + 1, t.n + 1, Append(terms, Repeat(t.node, 1, None)))
           [] peek(s, t.i) = "*" ->
                expr_seq_loop(s, t.i + 1, t.n + 1, Append(terms, Repeat(t.node, 0, None)))
           [] peek(s, t.i) = "?" ->
                expr_seq_loop(s, t.i + 1, t.n + 1, Append(terms, Repeat(t.node, 0, Some(1))))
           [] peek(s, t.i) = "{" ->
                expr_seq_push(s, terms, quantifier(s, t.i + 1, t.n, t.node))
           [] peek(s, t.i) = Eos -> sequence_result(Append(terms, t.node), t.i, t.n)
           [] OTHER -> expr_seq_loop(s, t.i, t.n, Append(terms, t.node))

\* the loop of parse_expr_seq
expr_seq_loop(s, i, n, terms) == expr_seq_item(s, terms, parse_term(s, i, n))

parse_expr_seq(s, i, n) == expr_seq_loop(s, i, n, <<>>)

\* the loop of parse_expr_list once parse_expr_seq has returned r
expr_list_item(s, seqs, r) ==
    IF r.err # "" THEN r
    ELSE IF peek(s, r.i) # "|" THEN anyof_result(Append(seqs, r.node), r.i, r.n)
    ELSE expr_list_loop(s, r.i + 1, r.n, Append(seqs, r.node))

\* the loop of parse_expr_list
expr_list_loop(s, i, n, seqs) == expr_list_item(s, seqs, parse_expr_seq(s, i, n))

parse_expr_list(s, i, n) == expr_list_loop(s, i, n, <<>>)

\* Parser::parse on an instance whose flag is in_use and whose arena holds n nodes
parse(in_use, n, re) ==
    IF in_use THEN Err("AlreadyInUse", 1, n)
    ELSE parse_expr_list(re, 1, n)
(***************************************************************************)
(* regex/ast.rs: Display.                                                  *)
(***************************************************************************)
RECURSIVE FormatUsize(_)
\* "{}" of a usize: its decimal digits
FormatUsize(n) ==
    IF n < 10 THEN <<DigitChars[n + 1]>>
    ELSE FormatUsize(n \div 10) \o <<DigitChars[(n % 10) + 1]>>

\* Display of Char::Any: the arm is not in regex/ast.rs; the class marker of the spec
fmt_Any == <<".">>

fmt_Char(c) ==
    CASE c.k = "Just" -> <<c.ch>>
      [] c.k = "Alphabet" -> <<"\\", "w">>
      [] c.k = "Number" -> <<"\\", "d">>
      [] c.k = "Any" -> fmt_Any

\* the quantifier suffix written by the Repeat arm of fmt
fmt_quantifier(min, max) ==
    CASE min = 0 /\ max = Some(1) -> <<"?">>
      [] min = 0 /\ max = None -> <<"*">>
      [] min = 1 /\ max = None -> <<"+">>
      [] min = 1 /\ max = Some(1) -> <<>>
      [] min = 0 /\ max.some /\ max.v # 1 ->
            <<"{", ",">> \o FormatUsize(max.v) \o <<"}">>
      [] min > 1 /\ ~max.some -> <<"{">> \o FormatUsize(min) \o <<",", "}">>
      [] min > 1 /\ max.some /\ min = max.v -> <<"{">> \o FormatUsize(min) \o <<"}">>
      [] OTHER -> <<"{">> \o FormatUsize(min) \o <<",">> \o FormatUsize(max.v) \o <<"}">>

RECURSIVE fmt(_)
RECURSIVE fmt_items(_, _)
\* "for c in items { c.fmt(f) }", with sep written before every item but the first
fmt_items(items, sep) ==
    IF items = <<>> THEN <<>>
    ELSE IF Len(items) = 1 THEN fmt(items[1])
    ELSE fmt(items[1]) \o sep \o fmt_items(Tail(items), sep)

fmt(node) ==
    CASE node.t = "Tail" -> <<>>
      [] node.t = "Literal" -> fmt_Char(node.c)
      [] node.t = "Sequence" -> fmt_items(Iter(node), <<>>)
      [] node.t = "AnyOf" ->
            IF has_only_literals(node)
            THEN <<"[">> \o fmt_items(Iter(node), <<>>) \o <<"]">>
            ELSE fmt_items(Iter(node), <<"|">>)
      [] node.t = "Repeat" ->
            LET expr == node.expr
                inner ==
                    CASE expr.t = "Tail" -> <<"(", ")">>
                      [] expr.t = "Literal" -> fmt_Char(expr.c)
                      [] expr.t = "Sequence" -> <<"(">> \o fmt(expr) \o <<")">>
                      [] expr.t = "AnyOf" ->
                            IF has_only_literals(expr) THEN fmt(expr)
                            ELSE <<"(">> \o fmt(expr) \o <<")">>
                      [] expr.t = "Repeat" -> fmt(expr)
            IN  inner \o fmt_quantifier(node.min, node.max)

(***************************************************************************)
(* rand_gen.rs.  write_regex is the set of its outcomes over every outcome *)
(* of the random source: the strings it can leave in the buffer, and       *)
(* Panic when some outcome of the random source makes it panic.            *)
(***************************************************************************)
Panic == <<"<panic>">>

\* the weight of Char::Any: the arm is not in regex/ast.rs; the weight of the spec
random_weight_Any == 36

\* Char::random_weight
Char_random_weight(c) ==
    CASE c.k = "Just" -> 1
      [] c.k = "Alphabet" -> 26
      [] c.k = "Number" -> 10
      [] c.k = "Any" -> random_weight_Any

\* Regex::random_weight is not in regex/ast.rs: the class weight for a Literal,
\* 1 for every other node (spec, Random Generator)
random_weight(node) ==
    IF node.t = "Literal" THEN Char_random_weight(node.c) ELSE 1

\* gen_char slicing one character too early: index - 1 .. index
gen_char_early(lo, hi) ==
    {<<RANDOM_CHARS[IF index = 0 THEN 1 ELSE index]>> : index \in lo..(hi - 1)}

\* rng.gen_range(lo..hi), then &RANDOM_CHARS[index..(index + 1)]
gen_char(lo, hi) == {<<RANDOM_CHARS[index + 1]>> : index \in lo..(hi - 1)}

\* the outcomes of running A and then B on the same buffer
Then(A, B) ==
    {a \o b : a \in A \ {Panic}, b \in B \ {Panic}}
      \cup (IF Panic \in A \/ (A \ {Panic} # {} /\ Panic \in B) THEN {Panic} ELSE {})

RECURSIVE Times(_, _)
\* the outcomes of "for _ in 0..k { write_regex(expr) }"
Times(A, k) == IF k = 0 THEN {<<>>} ELSE Then(A, Times(A, k - 1))

RECURSIVE write_regex(_, _)
RECURSIVE write_items(_, _)
\* "for item in regex.iter() { write_regex(item) }"
write_items(items, quantity_upper) ==
    IF items = <<>> THEN {<<>>}
    ELSE Then(write_regex(items[1], quantity_upper),
              write_items(Tail(items), quantity_upper))

write_regex(regex, quantity_upper) ==
    CASE regex.t = "Tail" -> {<<>>}
      [] regex.t = "Literal" ->
            (CASE regex.c.k = "Just" -> {<<regex.c.ch>>}
               [] regex.c.k = "Alphabet" -> gen_char(0, 26)
               [] regex.c.k = "Number" -> gen_char(26, 36)
               [] regex.c.k = "Any" -> gen_char(0, 36))
      [] regex.t = "Sequence" -> write_items(Iter(regex), quantity_upper)
      [] regex.t = "AnyOf" ->
            LET items == Iter(regex)
                \* choose_weighted yields an item of positive weight, or
                \* AllWeightsZero, on which expect panics
                chosen == {k \in 1..Len(items) : random_weight(items[k]) > 0}
            IN  IF chosen = {} THEN {Panic}
                ELSE UNION {write_regex(items[k], quantity_upper) : k \in chosen}
      [] regex.t = "Repeat" ->
            LET upper == unwrap_or(regex.max, quantity_upper) IN
            \* gen_range panics on an empty range
            IF regex.min > upper THEN {Panic}
            ELSE UNION {Times(write_regex(regex.expr, quantity_upper), k) :
                          k \in regex.min..upper}

\* RandomGenerator::generate
generate(regex, quantity_upper) == write_regex(regex, quantity_upper)
(***************************************************************************)
(* The patterns and the program state.                                     *)
(***************************************************************************)
\* every text over alphabet S of length at most n
Strings(S, n) == UNION {[1..k -> S] : k \in 0..n}

Sigma == {"a", "b", "(", ")", "[", "]", "|", "*", "+", "?", "{", "}", ",",
          "1", "2", "\\", ".", "d", "x"}

GenSigma == {"a", "1", "(", ")", "[", "]", "|", "*", "+", "?", "\\", "d", "w"}

\* patterns longer than MaxLen: nested and bounded quantifiers, groups inside
\* sequences, numbers with leading zeros and numbers beyond usize::MAX
Examples ==
    { <<"(", "a", "*", ")", "+">>,
      <<"(", "a", "b", ")", "{", "1", "}">>,
      <<"(", "a", "b", "|", "c", "d", ")", "e">>,
      <<"(", "a", "{", "2", "}", ")", "{", "3", "}">>,
      <<"a", "{", "5", ",", "}">>,
      <<"a", "{", "5", ",", "2", "}">>,
      <<"a", "{", "2", ",", "1", "}">>,
      <<"a", "{", "1", ",", "2", "}">>,
      <<"a", "{", ",", "2", "}">>,
      <<"a", "{", "1", ",", "2", ",">>,
      <<"a", "{", "1", ",", "2", "x">>,
      <<"a", "{", "0", "1", "}">>,
      <<"a", "{", "x", "}">>,
      <<"a", "{", "2", "x", "}">>,
      <<"a", "b", "|", "c", "d">>,
      <<"a", "|", "b", "|", "c">>,
      <<"(", "a", "b", ")", "+">>,
      <<"(", "a", "|", "b", ")", "c">>,
      <<"[", "a", "b", "]", "c", "?">>,
      <<"\\", "d", "{", "3", "}">>,
      <<"\\", "w", "{", "2", "}", "y", "(", "0", "\\", "d", ")", "{", "2", ",", "}">>,
      <<"a", "{", "9", "9", "9", "9", "9", "9", "9", "9", "9", "9", "9", "9", "9", "9",
        "9", "9", "9", "9", "9", "9", "}">>,
      <<"(", "a", "{", ",", "1", "8", "4", "4", "6", "7", "4", "4", "0", "7", "3", "7",
        "0", "9", "5", "5", "1", "6", "1", "6", ",">> }

\* patterns longer than MaxGenLen: the any-class, bounded and empty-range quantifiers
GenExamples ==
    { <<".">>,
      <<"[", ".", "a", "]">>,
      <<"a", "{", "5", ",", "}">>,
      <<"a", "{", "2", ",", "1", "}">>,
      <<"a", "{", "1", ",", "2", "}">>,
      <<"a", "{", "2", ",", "}">>,
      <<"(", "a", "{", "2", ",", "1", "}", ")", "?">>,
      <<"(", "a", "b", "|", "c", ")", "{", "2", "}">>,
      <<"\\", "d", "{", "3", "}">>,
      <<"(", "a", "|", "\\", "d", ")", "+">> }

Patterns == Strings(Sigma, MaxLen) \cup Examples

GenPatterns == Strings(GenSigma, MaxGenLen) \cup GenExamples

NoResult == Err("<none>", 1, 0)

NoText == <<"<none>">>

VARIABLES
    re,              \* the pattern handed to the program
    quantity_upper,  \* RandomGenerator.quantity_upper
    in_use,          \* Parser.in_use of the parser of re
    arena_len,       \* Parser.arena.len() of the parser of re
    calls,           \* parse calls made on that parser
    ret,             \* what the latest parse call on that parser returned
    result,          \* what its first parse call returned
    text,            \* format!("{}", tree) of the tree in result
    result2,         \* what a new parser returned for text
    text2,           \* format!("{}", tree) of the tree in result2
    out              \* what generate returned for the tree in result

vars == <<re, quantity_upper, in_use, arena_len, calls, ret, result, text, result2,
          text2, out>>

\* Parser::new, no generator output, nothing rendered
Start ==
    /\ in_use = FALSE
    /\ arena_len = 0
    /\ calls = 0
    /\ ret = NoResult
    /\ result = NoResult
    /\ text = NoText
    /\ result2 = NoResult
    /\ text2 = NoText
    /\ out = NoText

Init ==
    /\ re \in Patterns
    /\ quantity_upper = MaxUpper
    /\ Start

InitGen ==
    /\ re \in GenPatterns
    /\ quantity_upper \in 0..MaxUpper
    /\ Start

\* Parse marking the parser used only once a parse has succeeded
Parse_flag_on_success ==
    /\ calls < MaxCalls
    /\ ret' = parse(in_use, arena_len, re)
    /\ result' = IF calls = 0 THEN ret' ELSE result
    /\ arena_len' = ret'.n
    /\ in_use' = (in_use \/ ret'.err = "")
    /\ calls' = calls + 1
    /\ UNCHANGED <<re, quantity_upper, text, result2, text2, out>>

\* parser.parse(re) on the parser of re
Parse ==
    /\ calls < MaxCalls
    /\ ret' = parse(in_use, arena_len, re)
    /\ result' = IF calls = 0 THEN ret' ELSE result
    /\ arena_len' = ret'.n
    /\ in_use' = TRUE
    /\ calls' = calls + 1
    /\ UNCHANGED <<re, quantity_upper, text, result2, text2, out>>

\* format!("{}", tree)
Render ==
    /\ result.err = ""
    /\ text = NoText
    /\ text' = fmt(result.node)
    /\ UNCHANGED <<re, quantity_upper, in_use, arena_len, calls, ret, result, result2,
                   text2, out>>

\* Parser::new().parse(text)
Reparse ==
    /\ text # NoText
    /\ result2 = NoResult
    /\ result2' = parse(FALSE, 0, text)
    /\ UNCHANGED <<re, quantity_upper, in_use, arena_len, calls, ret, result, text,
                   text2, out>>

\* format!("{}", tree2)
Rerender ==
    /\ result2.err = ""
    /\ text2 = NoText
    /\ text2' = fmt(result2.node)
    /\ UNCHANGED <<re, quantity_upper, in_use, arena_len, calls, ret, result, text,
                   result2, out>>

\* generator.generate(tree): one outcome of the random source
Generate ==
    /\ result.err = ""
    /\ out = NoText
    /\ \E o \in generate(result.node, quantity_upper) : out' = o
    /\ UNCHANGED <<re, quantity_upper, in_use, arena_len, calls, ret, result, text,
                   result2, text2>>

Next == Parse \/ Render \/ Reparse \/ Rerender

NextGen == Parse \/ Generate

Spec == Init /\ [][Next]_vars

SpecGen == InitGen /\ [][NextGen]_vars
(***************************************************************************)
(* The match language of a tree, by the meaning the spec gives each node   *)
(* (spec, Data Model).  ub stands for an absent max.                       *)
(***************************************************************************)
LowerLetters == {"a", "b", "c", "d", "e", "f", "g", "h", "i", "j", "k", "l", "m",
                 "n", "o", "p", "q", "r", "s", "t", "u", "v", "w", "x", "y", "z"}

Digits == {"0", "1", "2", "3", "4", "5", "6", "7", "8", "9"}

\* the character pool of a class
Pool(c) ==
    CASE c.k = "Just" -> {c.ch}
      [] c.k = "Alphabet" -> LowerLetters
      [] c.k = "Number" -> Digits
      [] c.k = "Any" -> LowerLetters \cup Digits

RECURSIVE Matches(_, _, _)
RECURSIVE MatchesItems(_, _, _)
RECURSIVE MatchesTimes(_, _, _, _, _)
\* w is the outputs of the items, in order
MatchesItems(items, w, ub) ==
    IF items = <<>> THEN w = <<>>
    ELSE \E k \in 0..Len(w) :
            /\ Matches(items[1], SubSeq(w, 1, k), ub)
            /\ MatchesItems(Tail(items), SubSeq(w, k + 1, Len(w)), ub)

\* w is k copies of inner for some k in lo..hi
MatchesTimes(inner, w, lo, hi, ub) ==
    IF lo > hi THEN FALSE
    ELSE IF w = <<>> THEN lo = 0 \/ Matches(inner, <<>>, ub)
    ELSE /\ hi >= 1
         /\ \E k \in 1..Len(w) :
               /\ Matches(inner, SubSeq(w, 1, k), ub)
               /\ MatchesTimes(inner, SubSeq(w, k + 1, Len(w)),
                               IF lo > 0 THEN lo - 1 ELSE 0, hi - 1, ub)

Matches(node, w, ub) ==
    CASE node.t = "Tail" -> w = <<>>
      [] node.t = "Literal" -> Len(w) = 1 /\ w[1] \in Pool(node.c)
      [] node.t = "Sequence" -> MatchesItems(Iter(node), w, ub)
      [] node.t = "AnyOf" -> \E k \in 1..Len(Iter(node)) : Matches(Iter(node)[k], w, ub)
      [] node.t = "Repeat" ->
            MatchesTimes(node.expr, w, node.min, unwrap_or(node.max, ub), ub)

RECURSIVE SubNodes(_)
\* the nodes of a tree
SubNodes(node) ==
    {node} \cup
    (CASE node.t \in {"Sequence", "AnyOf"} -> SubNodes(node.head) \cup SubNodes(node.rest)
       [] node.t = "Repeat" -> SubNodes(node.expr)
       [] OTHER -> {})

MaxOf(S) == IF S = {} THEN 0 ELSE LET x == CHOOSE x \in S : \A y \in S : y <= x IN x

\* a repeat count that no word of length at most MaxWord needs to exceed
Unbounded(node) ==
    MaxWord + MaxOf({nd.min : nd \in {m \in SubNodes(node) : m.t = "Repeat"}})

\* the alphabet over which two match languages are compared
WordSigma == {"a", "b", "c", "*", "0"}

Words == Strings(WordSigma, MaxWord)

SameLanguage(t1, t2) ==
    \A w \in Words : Matches(t1, w, Unbounded(t1)) = Matches(t2, w, Unbounded(t2))

RECURSIVE OpenAt(_, _, _, _)
\* the constructs opened and not closed by the characters s[i..j-1] that the
\* parser has consumed: "(" a group, "[" a class, "{" a quantifier, "\\" an escape
OpenAt(s, i, j, stack) ==
    IF i >= j THEN stack
    ELSE CASE s[i] = "\\" ->
                IF i + 1 < j THEN OpenAt(s, i + 2, j, stack) ELSE Append(stack, "\\")
           [] s[i] \in {"(", "[", "{"} -> OpenAt(s, i + 1, j, Append(stack, s[i]))
           [] s[i] \in {")", "]", "}"} ->
                OpenAt(s, i + 1, j, SubSeq(stack, 1, Len(stack) - 1))
           [] OTHER -> OpenAt(s, i + 1, j, stack)

Closer(c) == CASE c = "(" -> ")" [] c = "[" -> "]" [] c = "{" -> "}"

RECURSIVE DigitRun(_, _)
\* the digits of s that end just before position j
DigitRun(s, j) ==
    IF j > 1 /\ IsDigit(s[j - 1]) THEN Append(DigitRun(s, j - 1), s[j - 1]) ELSE <<>>

(***************************************************************************)
(* The properties.                                                         *)
(***************************************************************************)

\* C1: canonical rendering is idempotent: the rendering of a parsed pattern
\* parses again, and rendering that second tree gives the same text.
C1_RenderIdempotent ==
    /\ result2 # NoResult => result2.err = ""
    /\ text2 # NoText => text2 = text

\* C2: semantic round trip: the rendering of a parsed tree parses again, to a
\* tree with the same match language (compared on the words of Words).
C2_RoundTripLanguage ==
    result2 # NoResult =>
        /\ result2.err = ""
        /\ SameLanguage(result.node, result2.node)

\* C3: generation membership: every string generate returns is in the language
\* of the tree, an absent max standing for quantity_upper.
C3_GenerationMembership ==
    out \notin {NoText, Panic} => Matches(result.node, out, quantity_upper)

C3_Witness ==
    /\ out \notin {NoText, Panic}
    /\ result.node.t = "Repeat"
    /\ ~result.node.max.some
    /\ result.node.expr.t = "AnyOf"
    /\ Len(out) >= 2

\* C4: generate is total over parser output: it never panics.
C4_GenerateTotal == out # Panic

\* C5: every Repeat of a parsed tree has min <= max when max is present.
C5_RepeatBoundsOrdered ==
    result.err = "" =>
        \A nd \in SubNodes(result.node) :
            nd.t = "Repeat" /\ nd.max.some => nd.min <= nd.max.v

\* C6: single-use parser: the flag never goes back to false; the first parse
\* call on an instance never returns AlreadyInUse; every later call returns
\* AlreadyInUse, allocates nothing and reads nothing, whatever the first returned.
C6_SingleUse ==
    [][ /\ in_use => in_use'
        /\ calls' = calls + 1 =>
              /\ in_use'
              /\ IF calls = 0
                 THEN ret'.err # "AlreadyInUse"
                 ELSE /\ ret'.err = "AlreadyInUse"
                      /\ arena_len' = arena_len
                      /\ ret'.i = 1
                      /\ ~ret'.some ]_vars

C6_Witness ==
    /\ calls >= 2
    /\ ret.err = "AlreadyInUse"
    /\ result.err = "UnexpectedEos"
    /\ arena_len > 0

\* C7: parse never returns Ok while part of the input is left unconsumed.
C7_OkConsumesAll == result.err = "" => result.i = Len(re) + 1

C9_QuantifierInterior ==
    LET open == OpenAt(re, 1, result.i, <<>>) IN
    /\ result.err = "UnexpectedChar" => result.expected \in {")", "]", "}"}
    /\ /\ result.err # ""
       /\ open # <<>>
       /\ open[Len(open)] = "{"
       /\ result.i <= Len(re)
       /\ ~IsDigit(re[result.i])
       /\ re[result.i] \notin {",", "}"}
       => result.err = "ShouldEscape"

RECURSIVE LiteralOnly(_)
\* literal-only as the spec defines it: every element literal-only, recursively
LiteralOnly(node) ==
    CASE node.t \in {"Tail", "Literal"} -> TRUE
      [] node.t = "Repeat" -> FALSE
      [] OTHER -> \A k \in 1..Len(Iter(node)) : LiteralOnly(Iter(node)[k])

\* every element is a Literal node itself
AllElementsLiteral(node) ==
    CASE node.t \in {"Tail", "Literal"} -> TRUE
      [] node.t = "Repeat" -> FALSE
      [] OTHER -> \A k \in 1..Len(Iter(node)) : Iter(node)[k].t = "Literal"

QuantPres == {<<>>, <<"b">>}

QuantPosts == {<<>>, <<"c">>}

QuantTerms ==
    { <<"a">>, <<".">>, <<"\\", "d">>, <<"\\", "*">>, <<"(", ")">>,
      <<"(", "a", "b", ")">>, <<"(", "a", "|", "b", ")">>, <<"(", "a", "*", ")">>,
      <<"[", "a", "b", "]">> }

QuantNumbers == {<<"0">>, <<"1">>, <<"2">>, <<"0", "1">>, <<"1", "2">>}

QuantTexts ==
    {<<>>, <<"?">>, <<"*">>, <<"+">>}
      \cup {<<"{">> \o n \o <<"}">> : n \in QuantNumbers}
      \cup {<<"{">> \o n \o <<",", "}">> : n \in QuantNumbers}
      \cup {<<"{">> \o n \o <<",">> \o m \o <<"}">> : n \in QuantNumbers, m \in QuantNumbers}
      \cup {<<"{", ",">> \o m \o <<"}">> : m \in QuantNumbers}

QuantPatterns ==
    Patterns \cup
    {pre \o t \o q \o post :
        pre \in QuantPres, t \in QuantTerms, q \in QuantTexts, post \in QuantPosts}

InitQuant ==
    /\ re \in QuantPatterns
    /\ quantity_upper = MaxUpper
    /\ Start

NextQuant == Parse

SpecQuant == InitQuant /\ [][NextQuant]_vars

RECURSIVE DecimalValue(_)
\* the number a digit string denotes
DecimalValue(ds) ==
    IF ds = <<>> THEN 0
    ELSE 10 * DecimalValue(SubSeq(ds, 1, Len(ds) - 1)) + DigitVal(ds[Len(ds)])

\* a decimal number of at most nine digits
IsNumberText(ds) ==
    ds # <<>> /\ Len(ds) <= 9 /\ \A k \in 1..Len(ds) : IsDigit(ds[k])

\* the bounds the quantifier table gives the text between the braces
BraceBounds(inner) ==
    LET commas == {k \in 1..Len(inner) : inner[k] = ","}
        c == CHOOSE k \in commas : TRUE
        lo == SubSeq(inner, 1, c - 1)
        hi == SubSeq(inner, c + 1, Len(inner))
    IN  CASE commas = {} /\ IsNumberText(inner) ->
                [ok |-> TRUE, min |-> DecimalValue(inner), max |-> Some(DecimalValue(inner))]
          [] Cardinality(commas) = 1 /\ IsNumberText(lo) /\ hi = <<>> ->
                [ok |-> TRUE, min |-> DecimalValue(lo), max |-> None]
          [] Cardinality(commas) = 1 /\ IsNumberText(lo) /\ IsNumberText(hi) ->
                [ok |-> TRUE, min |-> DecimalValue(lo), max |-> Some(DecimalValue(hi))]
          [] Cardinality(commas) = 1 /\ lo = <<>> /\ IsNumberText(hi) ->
                [ok |-> TRUE, min |-> 0, max |-> Some(DecimalValue(hi))]
          [] OTHER -> [ok |-> FALSE, min |-> 0, max |-> None]

\* the bounds the quantifier table gives a quantifier text; ok is false for
\* a text that is none of '?', '*', '+', '{n}', '{n,}', '{n,m}', '{,m}'
QuantBounds(q) ==
    CASE q = <<"?">> -> [ok |-> TRUE, min |-> 0, max |-> Some(1)]
      [] q = <<"*">> -> [ok |-> TRUE, min |-> 0, max |-> None]
      [] q = <<"+">> -> [ok |-> TRUE, min |-> 1, max |-> None]
      [] Len(q) >= 3 /\ q[1] = "{" /\ q[Len(q)] = "}" ->
            BraceBounds(SubSeq(q, 2, Len(q) - 1))
      [] OTHER -> [ok |-> FALSE, min |-> 0, max |-> None]

\* a character that is a Char by itself
IsPlain(c) == c \notin ControlChars /\ c # "\\"

IsPlainText(w) == \A k \in 1..Len(w) : IsPlain(w[k])

PlainNode(c) == IF c = "." THEN Literal(Any) ELSE Literal(Just(c))

\* the Literal nodes of a text of plain characters
PlainNodes(w) == [k \in 1..Len(w) |-> PlainNode(w[k])]

\* t is exactly one term: a plain character, an escape, or a group or class
\* that its last character closes
IsOneTerm(t) ==
    /\ t # <<>>
    /\ \/ Len(t) = 1 /\ IsPlain(t[1])
       \/ Len(t) = 2 /\ t[1] = "\\"
       \/ /\ t[1] \in {"(", "["}
          /\ OpenAt(t, 1, Len(t) + 1, <<>>) = <<>>
          /\ \A k \in 1..(Len(t) - 1) : OpenAt(t, 1, k + 1, <<>>) # <<>>
    /\ parse(FALSE, 0, t).err = ""
    /\ parse(FALSE, 0, t).i = Len(t) + 1

\* what the sequence holds for the term tree T followed by quantifier text q
QuantifiedItem(T, q) ==
    IF q = <<>> THEN T ELSE Repeat(T, QuantBounds(q).min, QuantBounds(q).max)

\* the tree of  pre t q post
QuantifiedTree(pre, t, q, post) ==
    sequence_from_iter(PlainNodes(pre)
                         \o <<QuantifiedItem(parse(FALSE, 0, t).node, q)>>
                         \o PlainNodes(post))

\* C11: a postfix quantifier binds to the term T just before it and to nothing
\* else, and gives Repeat(T, min, max) with '?' -> (0, Some(1)), '*' -> (0, None),
\* '+' -> (1, None), '{n}' -> (n, Some(n)), '{n,}' -> (n, None), '{n,m}' ->
\* (n, Some(m)), '{,m}' -> (0, Some(m)); a term with no quantifier is added to
\* the sequence unwrapped.  For every way to read re as plain characters, one
\* term, a quantifier of the table or none, and plain characters, parse returns
\* the sequence of the plain Literals, the (wrapped) term and the plain Literals.
C11_QuantifierTable ==
    result # NoResult =>
        \A a \in 0..Len(re) : \A b \in (a + 1)..Len(re) : \A c \in b..Len(re) :
            /\ IsPlainText(SubSeq(re, 1, a))
            /\ IsPlainText(SubSeq(re, c + 1, Len(re)))
            /\ b = c \/ QuantBounds(SubSeq(re, b + 1, c)).ok
            /\ IsOneTerm(SubSeq(re, a + 1, b))
            => /\ result.err = ""
               /\ result.i = Len(re) + 1
               /\ result.node =
                    QuantifiedTree(SubSeq(re, 1, a), SubSeq(re, a + 1, b),
                                   SubSeq(re, b + 1, c), SubSeq(re, c + 1, Len(re)))

C11_Witness ==
    /\ result.err = ""
    /\ re = <<"b", "(", "a", "b", ")", "{", ",", "1", "2", "}", "c">>
    /\ Len(Iter(result.node)) = 3
    /\ Iter(result.node)[2].t = "Repeat"
    /\ Iter(result.node)[2].expr.t = "Sequence"
    /\ Iter(result.node)[2].min = 0
    /\ Iter(result.node)[2].max = Some(12)
====
